---------------------------- MODULE Spec2Model ----------------------------
(***************************************************************************)
(* Pop the Balloon comment analytics: the comment collector of main.py     *)
(* (YouTubeCommentScraper, stage 1) and the sentiment analyzer of          *)
(* sentiment_analysis.py (SentimentAnalyzer, stage 2).                     *)
(*                                                                         *)
(* Python dicts are functions from string keys to values, d.get(k, v) is   *)
(* Get(d, k, v) and d[k] raises KeyError when k is not a key.  Scores are  *)
(* integers in units of 10^-5, so 0.05 is 5000 and round(x, 4) keeps a     *)
(* multiple of 10.                                                         *)
(***************************************************************************)
EXTENDS Integers, Sequences, FiniteSets, TLC

VARIABLES
    stage,            \* which program this run is: 1 = main.py, 2 = sentiment_analysis.py
    \* ---- stage 1: YouTubeCommentScraper.run / fetch_comments
    pc,               \* position of YouTubeCommentScraper.run
    comments,         \* fetch_comments' local list `comments`
    page_token,       \* fetch_comments' local `page_token`
    page_count,       \* fetch_comments' local `page_count`: requests issued
    ret,              \* the value fetch_comments returned to run
    served,           \* history: the items fetch_comments took from the responses, in
                      \* order, up to and including the first whose mapping raised
    sentToken,        \* history: the pageToken carried by the last request
    prevCursor,       \* history: the cursor the response before the last request returned
    cursor,           \* history: the cursor the last response returned
    answered,         \* history: number of requests the source answered with a batch
    failedAt,         \* history: the request that failed (0: none)
    abortedAt,        \* history: the page whose item mapping raised (0: none)
    csv1,             \* the stage-1 file pop_the_balloon_comments.csv
    csv1Before,       \* history: csv1 when the run started
    summary1,         \* what stage 1's print_summary reported
    \* ---- stage 2: SentimentAnalyzer
    apc,              \* position of SentimentAnalyzer.run
    acomments,        \* self.comments
    analyzed_comments,\* self.analyzed_comments
    scored,           \* history: number of polarity_scores calls
    csv2,             \* the stage-2 file pop_the_balloon_sentiment_analysis.csv
    csv2Before,       \* history: csv2 before the last export_to_csv
    exported,         \* history: the records the last export_to_csv was given
    summary,          \* what stage 2's print_summary reported
    beforeAnalyze,    \* history: analyzed_comments before the last analyze_comments
    lastCall,         \* history: the SentimentAnalyzer method that returned last
    lastLoaded,       \* history: the rows the last successful load_comments read
    \* ---- both
    log,              \* the notices logged so far
    raised,           \* an exception left run and reached main
    \* ---- classify_sentiment taken alone
    compound_score,   \* its argument
    sentiment         \* its result

vars == <<stage, pc, comments, page_token, page_count, ret, served, sentToken,
          prevCursor, cursor, answered, failedAt, abortedAt, csv1, csv1Before,
          summary1, apc, acomments, analyzed_comments, scored, csv2, csv2Before,
          exported, summary, beforeAnalyze, lastCall, lastLoaded, log, raised,
          compound_score, sentiment>>

stage1vars == <<pc, comments, page_token, page_count, ret, served, sentToken,
                prevCursor, cursor, answered, failedAt, abortedAt, csv1Before, summary1>>

stage2vars == <<apc, acomments, analyzed_comments, scored, csv2, csv2Before,
                exported, summary, beforeAnalyze, lastCall, lastLoaded>>

classifyvars == <<compound_score, sentiment>>

---------------------------------------------------------------------------
(* Bounds of the model *)

\* Pages the comment source serves for one video.
MaxPages == 3

\* Comments the video has, over all of its pages.
MaxItems == 3

MaxRows == 3

MaxCallRows == 2

MaxAnalyzed == 3

---------------------------------------------------------------------------
(* Python values *)

PyNone == "<None>"

EmptyDict == [k \in {} |-> PyNone]

Has(d, k) == k \in DOMAIN d

Get(d, k, default) == IF k \in DOMAIN d THEN d[k] ELSE default

\* `not x` for a string or None
Falsy(x) == x = PyNone \/ x = ""

RECURSIVE SeqMap(_, _)
SeqMap(Op(_), s) == IF s = <<>> THEN <<>> ELSE <<Op(Head(s))>> \o SeqMap(Op, Tail(s))

RECURSIVE SumSeq(_)
SumSeq(s) == IF s = <<>> THEN 0 ELSE Head(s) + SumSeq(Tail(s))

SeqsUpTo(S, n) == UNION {[1..k -> S] : k \in 0..n}

\* str(n) as csv.DictWriter writes an int
Str(n) ==
    CASE n = 0 -> "0" [] n = 1 -> "1" [] n = 2 -> "2" [] n = 10 -> "10"
      [] OTHER -> "?"

Numeric == {"0", "1", "2", "10"}

\* int(s) of a CSV field; defined on Numeric, raises ValueError elsewhere
ParseInt(s) ==
    CASE s = "0" -> 0 [] s = "1" -> 1 [] s = "2" -> 2 [] s = "10" -> 10
      [] OTHER -> 0

---------------------------------------------------------------------------
(* Files *)

NoFile == [exists |-> FALSE, readable |-> FALSE, header |-> <<>>, rows |-> <<>>]

File(header, rows) == [exists |-> TRUE, readable |-> TRUE, header |-> header, rows |-> rows]

UnreadableFile == [exists |-> TRUE, readable |-> FALSE, header |-> <<>>, rows |-> <<>>]

\* `with open(f, 'w') as csvfile: writer.writeheader(); writer.writerows(rows)`:
\* open may fail (file untouched); once open has truncated the file, a failure
\* leaves what reached the disk (nothing, the header, the header and some
\* rows); otherwise the file holds the header and every row.
WriteCsv(old, header, rows) ==
    {[file |-> old, raised |-> TRUE]}
    \cup {[file |-> File(<<>>, <<>>), raised |-> TRUE]}
    \cup {[file |-> File(header, SubSeq(rows, 1, n)), raised |-> TRUE] : n \in 0..(Len(rows) - 1)}
    \cup {[file |-> File(header, rows), raised |-> FALSE]}

---------------------------------------------------------------------------
(* Stage 1: the remote comment source *)

Thread(threadFields, commentFields) ==
    [snippet |-> [k \in threadFields \cup {"topLevelComment"} |->
        IF k = "replyCount" THEN 2
        ELSE [snippet |-> [f \in commentFields |->
                CASE f = "authorDisplayName" -> "Ana"
                  [] f = "likeCount" -> 10
                  [] OTHER -> "I love this!"]]]]

ItemFull == Thread({"replyCount"}, {"authorDisplayName", "likeCount", "textDisplay"})

ItemBare == Thread({}, {})

ItemMixed == Thread({}, {"authorDisplayName", "likeCount"})

ItemText == Thread({"replyCount"}, {"textDisplay"})

\* Items without the snippet.topLevelComment.snippet path
ItemNoSnippet == EmptyDict

ItemNoTop == [snippet |-> [replyCount |-> 2]]

ItemNoInner == [snippet |-> [replyCount |-> 2, topLevelComment |-> EmptyDict]]

WellFormedItems == {ItemFull, ItemBare, ItemMixed, ItemText}

MalformedItems == {ItemNoSnippet, ItemNoTop, ItemNoInner}

ItemPool == WellFormedItems \cup MalformedItems

Cursors == {"tokA", "tokB"}

\* What commentThreads().list(...).execute() may answer on page n, `taken`
\* comments having been served: a dict with or without 'items' and
\* 'nextPageToken'.  The video has at most MaxItems comments on at most
\* MaxPages pages: the last page carries no cursor.
Responses(n, taken) ==
    LET batches == SeqsUpTo(ItemPool, MaxItems - taken)
        tokens == IF n < MaxPages THEN Cursors \cup {""} ELSE {""}
    IN  {[items |-> b, nextPageToken |-> t] : b \in batches, t \in tokens}
        \cup {[items |-> b] : b \in batches}
        \cup {[nextPageToken |-> t] : t \in tokens}
        \cup {EmptyDict}

---------------------------------------------------------------------------
(* Stage 1: YouTubeCommentScraper *)

\* item['snippet']['topLevelComment']['snippet'] raises KeyError
MapRaises(item) ==
    ~ (/\ Has(item, "snippet")
       /\ Has(item["snippet"], "topLevelComment")
       /\ Has(item["snippet"]["topLevelComment"], "snippet"))

\* MapItem reading replyCount from the comment instead of the thread
MapItemCommentReplies(item) ==
    LET snippet == item["snippet"]["topLevelComment"]["snippet"]
    IN  [author_name |-> Get(snippet, "authorDisplayName", ""),
         likes |-> Get(snippet, "likeCount", 0),
         reply_count |-> Get(snippet, "replyCount", 0),
         comment_text |-> Get(snippet, "textDisplay", "")]

\* the comment dict built from one item
MapItem(item) ==
    LET snippet == item["snippet"]["topLevelComment"]["snippet"]
    IN  [author_name |-> Get(snippet, "authorDisplayName", ""),
         likes |-> Get(snippet, "likeCount", 0),
         reply_count |-> Get(item["snippet"], "replyCount", 0),
         comment_text |-> Get(snippet, "textDisplay", "")]

\* index of the first item of a batch whose mapping raises, 0 if none
RECURSIVE FirstRaising(_, _)
FirstRaising(items, i) ==
    IF i > Len(items) THEN 0
    ELSE IF MapRaises(items[i]) THEN i
    ELSE FirstRaising(items, i + 1)

\* `page_token = response.get('nextPageToken')`
NextPageToken(response) == Get(response, "nextPageToken", PyNone)

\* `if not page_token: break`
LastPage(token) == Falsy(token)

\* RequestToken never passing the cursor on
RequestTokenFirstPage(token) == PyNone

\* the pageToken argument of the next request
RequestToken(token) == token

Stage1Header == <<"author_name", "likes", "reply_count", "comment_text">>

\* a comment as csv.DictWriter writes it
CsvRow1(c) ==
    [author_name |-> c.author_name, likes |-> Str(c.likes),
     reply_count |-> Str(c.reply_count), comment_text |-> c.comment_text]

NoSummary == [total |-> -1]

FindChannel ==
    /\ stage = 1 /\ pc = "find_channel"
    /\ \/ pc' = "get_latest_video" /\ log' = log
       \/ pc' = "done" /\ log' = log \cup {"Failed to find channel"}
    /\ UNCHANGED <<stage, comments, page_token, page_count, ret, served, sentToken,
                   prevCursor, cursor, answered, failedAt, abortedAt, csv1,
                   csv1Before, summary1, stage2vars, raised, classifyvars>>

GetLatestVideo ==
    /\ stage = 1 /\ pc = "get_latest_video"
    /\ \/ pc' = "fetch_comments" /\ log' = log
       \/ pc' = "done" /\ log' = log \cup {"Failed to get latest video"}
    /\ UNCHANGED <<stage, comments, page_token, page_count, ret, served, sentToken,
                   prevCursor, cursor, answered, failedAt, abortedAt, csv1,
                   csv1Before, summary1, stage2vars, raised, classifyvars>>

\* One iteration of fetch_comments' `while True`, with the `except` that ends it.
FetchPage ==
    /\ stage = 1 /\ pc = "fetch_comments"
    /\ page_count < MaxPages
    /\ page_count' = page_count + 1
    /\ sentToken' = RequestToken(page_token)
    /\ prevCursor' = cursor
    /\ \/ \* request.execute() raises
          /\ failedAt' = page_count'
          /\ ret' = comments
          /\ pc' = "fetched"
          /\ log' = log \cup {"Error fetching comments"}
          /\ UNCHANGED <<comments, page_token, served, cursor, answered, abortedAt>>
       \/ \E response \in Responses(page_count', Len(served)) :
            LET items == Get(response, "items", <<>>)
                bad == FirstRaising(items, 1)
            IN  /\ served' = served \o (IF bad > 0 THEN SubSeq(items, 1, bad) ELSE items)
                /\ answered' = answered + 1
                /\ cursor' = NextPageToken(response)
                /\ IF bad > 0
                   THEN /\ comments' = comments \o SeqMap(MapItem, SubSeq(items, 1, bad - 1))
                        /\ abortedAt' = page_count'
                        /\ ret' = comments'
                        /\ pc' = "fetched"
                        /\ log' = log \cup {"Error fetching comments"}
                        /\ UNCHANGED page_token
                   ELSE /\ comments' = comments \o SeqMap(MapItem, items)
                        /\ page_token' = NextPageToken(response)
                        /\ abortedAt' = abortedAt
                        /\ IF LastPage(page_token')
                           THEN ret' = comments' /\ pc' = "fetched"
                           ELSE ret' = ret /\ pc' = pc
                        /\ log' = log
                /\ UNCHANGED failedAt
    /\ UNCHANGED <<stage, csv1, csv1Before, summary1, stage2vars, raised, classifyvars>>

\* run, line 228: `if not comments`.  fetch_comments' frame is gone: its locals
\* and the history of the call are dropped, its return value stays with run.
CheckComments ==
    /\ stage = 1 /\ pc = "fetched"
    /\ IF ret = <<>>
       THEN pc' = "done" /\ log' = log \cup {"No comments retrieved"}
       ELSE pc' = "export_to_csv" /\ log' = log
    /\ comments' = <<>> /\ page_token' = PyNone /\ page_count' = 0
    /\ served' = <<>> /\ sentToken' = PyNone /\ prevCursor' = PyNone
    /\ cursor' = PyNone /\ answered' = 0 /\ failedAt' = 0 /\ abortedAt' = 0
    /\ UNCHANGED <<stage, ret, csv1, csv1Before, summary1, stage2vars, raised,
                   classifyvars>>

\* YouTubeCommentScraper.export_to_csv(comments)
ExportComments ==
    /\ stage = 1 /\ pc = "export_to_csv"
    /\ IF ret = <<>>
       THEN /\ log' = log \cup {"No comments to export"}
            /\ pc' = "print_summary"
            /\ UNCHANGED <<csv1, raised>>
       ELSE \E w \in WriteCsv(csv1, Stage1Header, SeqMap(CsvRow1, ret)) :
            /\ csv1' = w.file
            /\ raised' = w.raised
            /\ pc' = IF w.raised THEN "done" ELSE "print_summary"
            /\ log' = IF w.raised THEN log \cup {"Error writing CSV file"} ELSE log
    /\ UNCHANGED <<stage, comments, page_token, page_count, ret, served, sentToken,
                   prevCursor, cursor, answered, failedAt, abortedAt,
                   csv1Before, summary1, stage2vars, classifyvars>>

Likes(c) == c.likes

Replies(c) == c.reply_count

\* YouTubeCommentScraper.print_summary(comments), then run's last line
SummarizeComments ==
    /\ stage = 1 /\ pc = "print_summary"
    /\ IF ret = <<>>
       THEN summary1' = summary1 /\ log' = log \cup {"No comments to summarize", "Workflow completed successfully"}
       ELSE /\ summary1' = [total |-> Len(ret),
                            total_likes |-> SumSeq(SeqMap(Likes, ret)),
                            total_replies |-> SumSeq(SeqMap(Replies, ret))]
            /\ log' = log \cup {"Workflow completed successfully"}
    /\ pc' = "done"
    /\ UNCHANGED <<stage, comments, page_token, page_count, ret, served, sentToken,
                   prevCursor, cursor, answered, failedAt, abortedAt, csv1,
                   csv1Before, stage2vars, raised, classifyvars>>

Stage1Next ==
    \/ FindChannel
    \/ GetLatestVideo
    \/ FetchPage
    \/ CheckComments
    \/ ExportComments
    \/ SummarizeComments

---------------------------------------------------------------------------
(* Stage 2: the scorer and the input files *)

Scale == 10 ^ 5

POSITIVE_THRESHOLD == 5000

NEGATIVE_THRESHOLD == -5000

\* round(x, 4) of a score in units of 10^-5: the nearest multiple of 10
Round4(x) ==
    LET a == IF x < 0 THEN -x ELSE x
        q == a \div 10
        r == a % 10
        up == r > 5 \/ (r = 5 /\ q % 2 = 1)
        m == 10 * (IF up THEN q + 1 ELSE q)
    IN  IF x < 0 THEN -m ELSE m

\* self.sia.polarity_scores(text): the external scorer, by what it returns for
\* each text of the model (two clear texts, the empty text, and two texts
\* whose compound lies within 10^-4 of a threshold).
polarity_scores(text) ==
    CASE text = "I love this!" -> [pos |-> 69200, neg |-> 0, neu |-> 30800, compound |-> 66960]
      [] text = "This is terrible." -> [pos |-> 0, neg |-> 50800, neu |-> 49200, compound |-> -47670]
      [] text = "Fine." -> [pos |-> 5004, neg |-> 0, neu |-> 94996, compound |-> 5004]
      [] text = "Meh." -> [pos |-> 0, neg |-> 5004, neu |-> 94996, compound |-> -5004]
      [] OTHER -> [pos |-> 0, neg |-> 0, neu |-> 0, compound |-> 0]

\* The int 0 that dict.get(k, 0) gives for a missing column, kept apart from
\* the string "0" a CSV field holds.
PyInt0 == "int(0)"

\* int(v) raises for a field that is no number
IntRaises(v) == v \notin Numeric \cup {PyInt0}

IntOf(v) == IF v = PyInt0 THEN 0 ELSE ParseInt(v)

\* str(v) as csv.DictWriter writes it
CsvStr(v) == IF v = PyInt0 THEN "0" ELSE v

RowPool ==
    {[author_name |-> "Ana", likes |-> "10", reply_count |-> "0", comment_text |-> "I love this!"],
     [author_name |-> "Ben", likes |-> "2", reply_count |-> "1", comment_text |-> "This is terrible."],
     [author_name |-> "", likes |-> "0", reply_count |-> "0", comment_text |-> "Fine."],
     [author_name |-> "Cy", likes |-> "", reply_count |-> "", comment_text |-> ""]}

Headers == {Stage1Header, <<"author_name", "comment_text">>}

Range(s) == {s[i] : i \in DOMAIN s}

\* a row as csv.DictReader yields it under a header
Row(header, r) == [k \in Range(header) |-> r[k]]

\* the states a stage-1 file of at most n rows of `pool` can be in when stage 2 reads it
FilesOf(pool, n) ==
    {NoFile, UnreadableFile, File(<<>>, <<>>)}
    \cup UNION {{File(h, rows) : rows \in SeqsUpTo({Row(h, r) : r \in pool}, n)} : h \in Headers}

InputFiles == FilesOf(RowPool, MaxRows)

\* the files handed to load_comments when it is called on its own
CallFiles == FilesOf({r \in RowPool : r.author_name \in {"Ana", "Cy"}}, MaxCallRows)

---------------------------------------------------------------------------
(* Stage 2: SentimentAnalyzer *)

\* LoadSucceeds reporting success for any file that exists
LoadSucceedsIfExists(file) == file.exists

\* load_comments' return value
LoadSucceeds(file) == file.exists /\ file.readable

\* classify_sentiment with inclusive thresholds
classify_sentiment_inclusive(score) ==
    IF score >= POSITIVE_THRESHOLD THEN "Positive"
    ELSE IF score <= NEGATIVE_THRESHOLD THEN "Negative"
    ELSE "Neutral"

classify_sentiment(score) ==
    IF score > POSITIVE_THRESHOLD THEN "Positive"
    ELSE IF score < NEGATIVE_THRESHOLD THEN "Negative"
    ELSE "Neutral"

\* AnalyzeOne with likes and reply_count exchanged
AnalyzeOneSwapped(comment) ==
    LET comment_text == Get(comment, "comment_text", "")
        scores == polarity_scores(comment_text)
    IN  [author_name |-> Get(comment, "author_name", ""),
         comment_text |-> comment_text,
         likes |-> Get(comment, "reply_count", PyInt0),
         reply_count |-> Get(comment, "likes", PyInt0),
         positive_score |-> Round4(scores.pos),
         negative_score |-> Round4(scores.neg),
         neutral_score |-> Round4(scores.neu),
         compound_score |-> Round4(scores.compound),
         sentiment |-> classify_sentiment(scores.compound)]

\* the `analyzed` dict of one comment
AnalyzeOne(comment) ==
    LET comment_text == Get(comment, "comment_text", "")
        scores == polarity_scores(comment_text)
    IN  [author_name |-> Get(comment, "author_name", ""),
         comment_text |-> comment_text,
         likes |-> Get(comment, "likes", PyInt0),
         reply_count |-> Get(comment, "reply_count", PyInt0),
         positive_score |-> Round4(scores.pos),
         negative_score |-> Round4(scores.neg),
         neutral_score |-> Round4(scores.neu),
         compound_score |-> Round4(scores.compound),
         sentiment |-> classify_sentiment(scores.compound)]

\* what analyze_comments leaves in self.analyzed_comments
Analyzed(before, cs) == before \o SeqMap(AnalyzeOne, cs)

Stage2Header ==
    <<"author_name", "sentiment", "compound_score", "positive_score", "negative_score",
      "neutral_score", "likes", "reply_count", "comment_text">>

CsvRow2(a) == [a EXCEPT !.likes = CsvStr(a.likes), !.reply_count = CsvStr(a.reply_count)]

\* NothingAnalyzed without the emptiness test
NothingAnalyzedNever(analyzed) == FALSE

\* `if not self.analyzed_comments` of export_to_csv and print_summary
NothingAnalyzed(analyzed) == analyzed = <<>>

Sentiments == {"Positive", "Negative", "Neutral"}

Indices(analyzed, s) == {i \in DOMAIN analyzed : analyzed[i].sentiment = s}

\* SentimentCount with a loop that starts at the second record
SentimentCountSkipFirst(analyzed, s) == Cardinality(Indices(analyzed, s) \ {1})

RECURSIVE SumOver(_, _, _)
SumOver(analyzed, I, field) ==
    IF I = {} THEN 0
    ELSE LET i == CHOOSE j \in I : TRUE
         IN  IntOf(analyzed[i][field]) + SumOver(analyzed, I \ {i}, field)

RECURSIVE SumCompound(_)
SumCompound(analyzed) ==
    IF analyzed = <<>> THEN 0
    ELSE Head(analyzed).compound_score + SumCompound(Tail(analyzed))

\* sentiment_counts[s] after the loop of print_summary
SentimentCount(analyzed, s) == Cardinality(Indices(analyzed, s))

\* `count / total_comments * 100` as f"{percentage:5.2f}" prints it, in hundredths
Percentage(count, total) ==
    IF total > 0 THEN (2 * 10000 * count + total) \div (2 * total) ELSE 0

\* print_summary raises at the first int() of a field that is no number
SummaryRaises(analyzed) ==
    \E i \in DOMAIN analyzed : IntRaises(analyzed[i].likes) \/ IntRaises(analyzed[i].reply_count)

Summary(analyzed) ==
    LET total == Len(analyzed)
    IN  [total |-> total,
         total_likes |-> SumOver(analyzed, DOMAIN analyzed, "likes"),
         total_replies |-> SumOver(analyzed, DOMAIN analyzed, "reply_count"),
         sum_compound |-> SumCompound(analyzed),
         counts |-> [s \in Sentiments |-> SentimentCount(analyzed, s)],
         percentages |-> [s \in Sentiments |-> Percentage(SentimentCount(analyzed, s), total)],
         likes |-> [s \in Sentiments |-> SumOver(analyzed, Indices(analyzed, s), "likes")],
         replies |-> [s \in Sentiments |-> SumOver(analyzed, Indices(analyzed, s), "reply_count")]]

\* where a call leaves SentimentAnalyzer.run: at `next` inside run, or with the
\* caller again when the method was called on its own
After(next) == IF apc = "any" THEN "any" ELSE next

\* load_comments(input_file)
LoadComments(input_file) ==
    /\ stage = 2 /\ apc \in {"load_comments", "any"}
    /\ IF LoadSucceeds(input_file)
       THEN /\ acomments' = input_file.rows
            /\ lastLoaded' = input_file.rows
            /\ apc' = After("analyze_comments")
            /\ log' = log \cup {"Loaded comments"}
       ELSE /\ acomments' = acomments
            /\ lastLoaded' = lastLoaded
            /\ apc' = After("done")
            /\ log' = log \cup {IF input_file.exists THEN "Error loading comments" ELSE "not found"}
    /\ lastCall' = "load_comments"
    /\ UNCHANGED <<stage, stage1vars, csv1, analyzed_comments, scored, csv2, csv2Before,
                   exported, summary, beforeAnalyze, raised, classifyvars>>

AnalyzeComments ==
    /\ stage = 2 /\ apc \in {"analyze_comments", "any"}
    /\ Len(analyzed_comments) + Len(acomments) <= MaxAnalyzed
    /\ analyzed_comments' = Analyzed(analyzed_comments, acomments)
    /\ beforeAnalyze' = analyzed_comments
    /\ scored' = scored + Len(acomments)
    /\ apc' = After("export_to_csv")
    /\ lastCall' = "analyze_comments"
    /\ UNCHANGED <<stage, stage1vars, csv1, acomments, csv2, csv2Before, exported,
                   summary, lastLoaded, log, raised, classifyvars>>

\* SentimentAnalyzer.export_to_csv()
ExportAnalyzed ==
    /\ stage = 2 /\ apc = "export_to_csv"
    /\ IF NothingAnalyzed(analyzed_comments)
       THEN /\ log' = log \cup {"No analyzed comments to export"}
            /\ apc' = "print_summary"
            /\ UNCHANGED <<csv2, csv2Before, exported, raised>>
       ELSE \E w \in WriteCsv(csv2, Stage2Header, SeqMap(CsvRow2, analyzed_comments)) :
            /\ csv2' = w.file
            /\ csv2Before' = csv2
            /\ exported' = SeqMap(CsvRow2, analyzed_comments)
            /\ raised' = w.raised
            /\ apc' = IF w.raised THEN "done" ELSE "print_summary"
            /\ log' = IF w.raised THEN log \cup {"Error writing CSV file"} ELSE log
    /\ lastCall' = "export_to_csv"
    /\ UNCHANGED <<stage, stage1vars, csv1, acomments, analyzed_comments, scored,
                   summary, beforeAnalyze, lastLoaded, classifyvars>>

\* SentimentAnalyzer.print_summary(), then run's last line
SummarizeAnalyzed ==
    /\ stage = 2 /\ apc = "print_summary"
    /\ apc' = "done"
    /\ IF NothingAnalyzed(analyzed_comments)
       THEN /\ log' = log \cup {"No comments to summarize", "Workflow completed successfully"}
            /\ UNCHANGED <<summary, raised>>
       ELSE IF SummaryRaises(analyzed_comments)
       THEN /\ raised' = TRUE
            /\ UNCHANGED <<summary, log>>
       ELSE /\ summary' = Summary(analyzed_comments)
            /\ log' = log \cup {"Workflow completed successfully"}
            /\ UNCHANGED raised
    /\ lastCall' = "print_summary"
    /\ UNCHANGED <<stage, stage1vars, csv1, acomments, analyzed_comments, scored,
                   csv2, csv2Before, exported, beforeAnalyze, lastLoaded, classifyvars>>

Stage2Next ==
    \/ LoadComments(csv1)
    \/ AnalyzeComments
    \/ ExportAnalyzed
    \/ SummarizeAnalyzed

\* load_comments called on its own, on any file
CallLoadComments == \E input_file \in CallFiles : LoadComments(input_file)

\* classify_sentiment called on its own
Classify ==
    /\ stage = 3 /\ sentiment = "unset"
    /\ sentiment' = classify_sentiment(compound_score)
    /\ UNCHANGED <<stage, stage1vars, stage2vars, csv1, log, raised, compound_score>>

---------------------------------------------------------------------------
(* Specifications *)

StaleInput == File(Stage1Header, <<[author_name |-> "Old", likes |-> "1", reply_count |-> "0", comment_text |-> "Meh."]>>)

StaleOutput == File(Stage2Header, <<CsvRow2(AnalyzeOne(StaleInput.rows[1]))>>)

\* One run of main.py (stage 1) or of sentiment_analysis.py (stage 2)
Init ==
    /\ stage \in {1, 2}
    /\ comments = <<>> /\ page_token = PyNone /\ page_count = 0
    /\ ret = <<>> /\ served = <<>> /\ sentToken = PyNone /\ prevCursor = PyNone
    /\ cursor = PyNone /\ answered = 0 /\ failedAt = 0 /\ abortedAt = 0
    /\ summary1 = NoSummary
    /\ acomments = <<>> /\ analyzed_comments = <<>> /\ scored = 0
    /\ exported = <<>> /\ summary = NoSummary /\ beforeAnalyze = <<>>
    /\ lastCall = "none" /\ lastLoaded = <<>>
    /\ log = {} /\ raised = FALSE
    /\ compound_score = 0 /\ sentiment = "unset"
    /\ pc = IF stage = 1 THEN "find_channel" ELSE "idle"
    /\ apc = IF stage = 2 THEN "load_comments" ELSE "idle"
    /\ csv1 \in IF stage = 1 THEN {NoFile, StaleInput} ELSE InputFiles
    /\ csv1Before = csv1
    /\ csv2 \in IF stage = 2 THEN {NoFile, StaleOutput} ELSE {NoFile}
    /\ csv2Before = csv2

Next == Stage1Next \/ Stage2Next

Spec == Init /\ [][Next]_vars

\* One SentimentAnalyzer whose load_comments and analyze_comments are called in any order
InitCalls ==
    /\ stage = 2
    /\ comments = <<>> /\ page_token = PyNone /\ page_count = 0
    /\ ret = <<>> /\ served = <<>> /\ sentToken = PyNone /\ prevCursor = PyNone
    /\ cursor = PyNone /\ answered = 0 /\ failedAt = 0 /\ abortedAt = 0
    /\ summary1 = NoSummary
    /\ acomments = <<>> /\ analyzed_comments = <<>> /\ scored = 0
    /\ exported = <<>> /\ summary = NoSummary /\ beforeAnalyze = <<>>
    /\ lastCall = "none" /\ lastLoaded = <<>>
    /\ log = {} /\ raised = FALSE
    /\ compound_score = 0 /\ sentiment = "unset"
    /\ pc = "idle"
    /\ apc = "any"
    /\ csv1 = NoFile
    /\ csv1Before = csv1
    /\ csv2 = NoFile
    /\ csv2Before = csv2

NextCalls == CallLoadComments \/ AnalyzeComments

SpecCalls == InitCalls /\ [][NextCalls]_vars

\* classify_sentiment on every score of [-1, 1]
InitClassify ==
    /\ stage = 3
    /\ comments = <<>> /\ page_token = PyNone /\ page_count = 0
    /\ ret = <<>> /\ served = <<>> /\ sentToken = PyNone /\ prevCursor = PyNone
    /\ cursor = PyNone /\ answered = 0 /\ failedAt = 0 /\ abortedAt = 0
    /\ summary1 = NoSummary
    /\ acomments = <<>> /\ analyzed_comments = <<>> /\ scored = 0
    /\ exported = <<>> /\ summary = NoSummary /\ beforeAnalyze = <<>>
    /\ lastCall = "none" /\ lastLoaded = <<>>
    /\ log = {} /\ raised = FALSE
    /\ pc = "idle" /\ apc = "idle"
    /\ csv1 = NoFile /\ csv1Before = csv1 /\ csv2 = NoFile /\ csv2Before = csv2
    /\ compound_score \in (-Scale)..Scale
    /\ sentiment = "unset"

NextClassify == Classify

SpecClassify == InitClassify /\ [][NextClassify]_vars

---------------------------------------------------------------------------
(* Properties *)

PostFetch == {"fetched", "export_to_csv", "print_summary", "done"}

\* fetch_comments has just returned to run
FetchReturned == stage = 1 /\ pc = "fetched"

\* run is past its call of fetch_comments
FetchDone ==
    /\ stage = 1 /\ pc \in PostFetch
    /\ log \cap {"Failed to find channel", "Failed to get latest video"} = {}

\* no request failed and no item mapping raised
NoFault == failedAt = 0 /\ abortedAt = 0

\* a response carries no continuation cursor: the key is missing or its value is empty
NoCursor(c) == c = PyNone \/ c = ""

\* C1: Pagination completeness.  While every request is answered with a batch of
\* comment threads, the first request carries no cursor and each later request
\* carries the cursor the response before it returned; there is one request per
\* answered page; a further request is issued only after a response with a
\* cursor; and fetch_comments returns right after the first response without a
\* cursor, with the comments of all served items in source order.
C1_PaginationComplete ==
    stage = 1 =>
        /\ page_count >= 1 => sentToken = prevCursor
        /\ NoFault => page_count = answered
        /\ (NoFault /\ pc = "fetch_comments" /\ page_count >= 1) => ~NoCursor(cursor)
        /\ pc = "fetch_comments" => NoFault
        /\ (NoFault /\ FetchReturned) =>
              /\ NoCursor(cursor)
              /\ ret = SeqMap(MapItem, served)

C1_Witness ==
    /\ FetchReturned /\ NoFault
    /\ page_count >= 2 /\ sentToken \in Cursors
    /\ Len(ret) >= 3 /\ ret[1] # ret[2]

\* what the caller of fetch_comments receives
CallerSees == [value |-> ret, exception |-> FALSE]

\* what the caller receives from a complete collection of the same items
CompleteCollection(items) == [value |-> SeqMap(MapItem, items), exception |-> FALSE]

\* C2: Partial-failure determinism.  When the k-th request fails, no further
\* request is issued, the comments of pages 1..k-1 are returned in order, and
\* the caller is told the collection is incomplete: what it receives differs
\* from a complete collection of the same items.
C2_PartialFailureFlagged ==
    (FetchReturned /\ failedAt > 0) =>
        /\ page_count = failedAt
        /\ ret = SeqMap(MapItem, served)
        /\ CallerSees # CompleteCollection(served)

\* the nine scores the specification lists, with their categories
BoundaryTable ==
    {<<-Scale, "Negative">>, <<-6000, "Negative">>, <<-5000, "Neutral">>,
     <<-4000, "Neutral">>, <<0, "Neutral">>, <<4000, "Neutral">>,
     <<5000, "Neutral">>, <<6000, "Positive">>, <<Scale, "Positive">>}

\* the threshold rule of the specification, on scores in units of 10^-5
ThresholdRule(score) ==
    IF 100 * score > 5 * Scale THEN "Positive"
    ELSE IF 100 * score < -5 * Scale THEN "Negative"
    ELSE "Neutral"

\* C3: Classification totality and boundary exactness.  classify_sentiment gives
\* every score of [-1, 1] exactly one of Positive, Negative, Neutral: Positive
\* above 0.05, Negative below -0.05, Neutral otherwise, and the nine listed
\* scores get the listed categories.
C3_ClassifyTotalExact ==
    (stage = 3 /\ sentiment # "unset") =>
        /\ sentiment \in Sentiments
        /\ (sentiment = "Positive") <=> (100 * compound_score > 5 * Scale)
        /\ (sentiment = "Negative") <=> (100 * compound_score < -5 * Scale)
        /\ \A row \in BoundaryTable : compound_score = row[1] => sentiment = row[2]

C3_Witness == stage = 3 /\ compound_score = 5000 /\ sentiment = "Neutral"

Abs(x) == IF x < 0 THEN -x ELSE x

\* C5: Aggregation partition.  Whenever print_summary reports, every analyzed
\* comment has exactly one of the three categories, each reported count is the
\* number of comments of its category, the three counts add up to the total,
\* each percentage is the count over the total rounded to 0.01, and the three
\* percentages add up to 100 within 0.1.
C5_CountsPartitionTotal ==
    (stage = 2 /\ summary # NoSummary) =>
        /\ summary.total = Len(analyzed_comments)
        /\ summary.total > 0
        /\ \A i \in DOMAIN analyzed_comments : analyzed_comments[i].sentiment \in Sentiments
        /\ \A s \in Sentiments :
              /\ summary.counts[s] =
                    Cardinality({i \in DOMAIN analyzed_comments : analyzed_comments[i].sentiment = s})
              /\ 2 * Abs(summary.percentages[s] * summary.total - 10000 * summary.counts[s])
                    <= summary.total
        /\ summary.counts["Positive"] + summary.counts["Negative"] + summary.counts["Neutral"]
              = summary.total
        /\ Abs(summary.percentages["Positive"] + summary.percentages["Negative"]
               + summary.percentages["Neutral"] - 10000) <= 10

C5_Witness ==
    /\ stage = 2 /\ summary # NoSummary
    /\ \A s \in Sentiments : summary.counts[s] = 1
    /\ summary.percentages["Neutral"] = 3333

\* C6: InputMissing.  When the stage-1 file is absent or unreadable,
\* load_comments fails and run ends there: nothing is scored or analyzed, the
\* stage-2 file is not written, no summary is reported, nothing is raised.
C6_InputMissingAborts ==
    (stage = 2 /\ ~(csv1.exists /\ csv1.readable) /\ apc # "load_comments") =>
        /\ apc = "done"
        /\ lastCall = "load_comments"
        /\ scored = 0 /\ analyzed_comments = <<>>
        /\ exported = <<>> /\ csv2 = csv2Before
        /\ summary = NoSummary
        /\ ~raised
        /\ log \cap {"not found", "Error loading comments"} # {}

C6_Witness ==
    /\ stage = 2 /\ apc = "done" /\ csv1 = UnreadableFile
    /\ csv2 = StaleOutput /\ "Error loading comments" \in log

\* C7: EmptyResult.  A stage-1 run whose fetch returned no comment, and a
\* stage-2 run that loaded no comment, never write their output file and never
\* report a summary; they log a notice and end without raising.
C7_EmptyResultSkips ==
    /\ (FetchDone /\ ret = <<>>) =>
          /\ pc \in {"fetched", "done"}
          /\ csv1 = csv1Before /\ summary1 = NoSummary /\ ~raised
          /\ pc = "done" => "No comments retrieved" \in log
    /\ (stage = 2 /\ apc \notin {"load_comments", "any"} /\ LoadSucceeds(csv1) /\ csv1.rows = <<>>) =>
          /\ analyzed_comments = <<>>
          /\ exported = <<>> /\ csv2 = csv2Before /\ summary = NoSummary /\ ~raised
          /\ apc \in {"print_summary", "done"} => "No analyzed comments to export" \in log
          /\ apc = "done" => "No comments to summarize" \in log

C7_Witness ==
    /\ stage = 2 /\ apc = "done" /\ lastCall = "print_summary"
    /\ csv1 = File(Stage1Header, <<>>) /\ csv2 = StaleOutput

\* C8: All-or-nothing output.  After export_to_csv has opened the stage-2 file
\* for writing, the file holds the header and every analyzed record, or is as it
\* was before the call; a failure is raised to the caller.
C8_ExportAllOrNothing ==
    (stage = 2 /\ lastCall \in {"export_to_csv", "print_summary"} /\ exported # <<>>) =>
        /\ csv2 = File(Stage2Header, exported) \/ csv2 = csv2Before
        /\ csv2 # File(Stage2Header, exported) => raised

\* the item has the snippet.topLevelComment.snippet path of a comment thread
IsThread(item) ==
    /\ "snippet" \in DOMAIN item
    /\ "topLevelComment" \in DOMAIN item["snippet"]
    /\ "snippet" \in DOMAIN item["snippet"]["topLevelComment"]

\* the RawComment of a comment thread: each field, or its default when absent
ExpectedRaw(item) ==
    LET thread == item["snippet"]
        c == thread["topLevelComment"]["snippet"]
    IN  [author_name |-> IF "authorDisplayName" \in DOMAIN c THEN c["authorDisplayName"] ELSE "",
         likes |-> IF "likeCount" \in DOMAIN c THEN c["likeCount"] ELSE 0,
         reply_count |-> IF "replyCount" \in DOMAIN thread THEN thread["replyCount"] ELSE 0,
         comment_text |-> IF "textDisplay" \in DOMAIN c THEN c["textDisplay"] ELSE ""]

RawFields == {"author_name", "likes", "reply_count", "comment_text"}

\* C10 as stated: when analyze_comments has just returned, analyzed_comments has
\* one record per record of comments, in order, the four fields copied.
C10_AnalyzedMatchesComments ==
    (stage = 2 /\ lastCall = "analyze_comments") =>
        /\ Len(analyzed_comments) = Len(acomments)
        /\ \A i \in DOMAIN acomments : \A f \in RawFields \cap DOMAIN acomments[i] :
              analyzed_comments[i][f] = acomments[i][f]

\* the value analyze_comments keeps for field f of a loaded comment
Copied(comment, f) ==
    IF f \in DOMAIN comment THEN comment[f]
    ELSE IF f \in {"likes", "reply_count"} THEN PyInt0 ELSE ""

\* C10: amended.  When analyze_comments has just returned, analyzed_comments is
\* what it held before the call followed by one record per record of comments,
\* in order, the four fields copied (a column the file lacks gets '' or 0); its
\* length is the length of comments only when it was empty before the call; and
\* comments is still what load_comments last read.
C10_AnalyzeAppends ==
    (stage = 2 /\ lastCall = "analyze_comments") =>
        /\ Len(analyzed_comments) = Len(beforeAnalyze) + Len(acomments)
        /\ SubSeq(analyzed_comments, 1, Len(beforeAnalyze)) = beforeAnalyze
        /\ \A i \in DOMAIN acomments : \A f \in RawFields :
              analyzed_comments[Len(beforeAnalyze) + i][f] = Copied(acomments[i], f)
        /\ beforeAnalyze = <<>> => Len(analyzed_comments) = Len(acomments)
        /\ acomments = lastLoaded

C10_Witness ==
    /\ stage = 2 /\ apc = "any" /\ lastCall = "analyze_comments"
    /\ Len(beforeAnalyze) = 1 /\ Len(acomments) = 2
    /\ acomments[1] # acomments[2]
    /\ "likes" \notin DOMAIN acomments[1]

=============================================================================
